---- MODULE Spec2Model ----
(***************************************************************************)
(* Model of src/main.py: the incremental APT repository builder.  A run of  *)
(* main() walks the configured projects in sorted order; handle_repo loads  *)
(* the project's cache file, lists the upstream releases, ingests the .deb  *)
(* assets of the release it examines, saves the cache (finally) and appends *)
(* the blocks to the per-architecture Packages files.                       *)
(*                                                                         *)
(* Timestamps are integer instants (days relative to 2020-01-01 UTC).       *)
(* A metadata block text is modelled by the set of pool files the extractor *)
(* scanned to print it (dpkg-scanpackages scans the whole output_dir).      *)
(***************************************************************************)
EXTENDS Integers, Sequences, FiniteSets, TLC

\* ---------------------------------------------------------------- bounds
MaxRuns == 2

\* ------------------------------------------------------- program constants
zero_time == 0

\* config.repositories as written in config.toml (unsorted on purpose)
repositories == <<"b", "a">>

Repos == {repositories[i] : i \in 1..Len(repositories)}

\* lexicographic order of the strings the program compares or sorts
StrOrder == <<"a", "b", "n.txt", "u.deb", "x.deb", "y.deb", "z.deb">>

StrRanks == [s \in {StrOrder[i] : i \in 1..Len(StrOrder)} |->
                CHOOSE i \in 1..Len(StrOrder) : StrOrder[i] = s]

StrRank(s) == StrRanks[s]

\* asset.name.endswith(".deb")
IsDeb(name) == name \in {"u.deb", "x.deb", "y.deb", "z.deb"}

\* mutant: the new value replaces the old one instead of max()
Max_First(x, y) == x

\* max(x, y) of lines 132 and 222
Max(x, y) == IF x >= y THEN x ELSE y

\* ------------------------------------------------------------- environment
\* What upstream can publish, per project, in publication order.  `content`
\* is what the downloaded file is: a well-formed package of an architecture,
\* a package whose control data has no Architecture field ("noarch"), or a
\* file the extractor process fails on ("broken").
MkAsset(name, content) == [name |-> name, content |-> content]

MkRelease(tag, at, assets) == [tag_name |-> tag, published_at |-> at, assets |-> assets]

Catalog(repo) ==
    IF repo = "a"
    THEN << MkRelease("v1", 1, << MkAsset("y.deb", "arm64"), MkAsset("n.txt", "text"),
                                  MkAsset("x.deb", "amd64") >>),
            MkRelease("v2", 2, << MkAsset("x.deb", "amd64"), MkAsset("y.deb", "arm64") >>),
            MkRelease("v3", 3, << MkAsset("n.txt", "text") >>) >>
    ELSE << MkRelease("w1", -1, << MkAsset("z.deb", "amd64"), MkAsset("z.deb", "amd64") >>),
            MkRelease("w2", 2, << MkAsset("z.deb", "noarch"), MkAsset("u.deb", "broken") >>) >>

\* every file the pool tree can hold
Files == UNION {UNION {{[repo |-> r, tag |-> Catalog(r)[i].tag_name,
                         name |-> Catalog(r)[i].assets[k].name] :
                            k \in 1..Len(Catalog(r)[i].assets)} :
                       i \in 1..Len(Catalog(r))} :
                r \in Repos}

Contents == [f \in Files |->
                LET rel == CHOOSE x \in {Catalog(f.repo)[i] : i \in 1..Len(Catalog(f.repo))} :
                               x.tag_name = f.tag
                    ast == CHOOSE a \in {rel.assets[k] : k \in 1..Len(rel.assets)} :
                               a.name = f.name
                IN  ast.content]

\* the content of a file of the pool tree
ContentOf(file) == Contents[file]

VARIABLES
    published,        \* [Repos -> Nat]: how many catalog releases upstream lists
    cache_file,       \* [Repos -> [state, entries]]: package-cache-<repo>.json
    pool,             \* set of [repo, tag, name]: files under pool/<component>
    index,            \* Seq of [repo, arch, package]: appends to binary-<arch>/Packages
    release_file,     \* [exists, ts, tree]: dists/<suite>/Release
    pc,               \* position of the run
    IS_CI,            \* "CI" in os.environ, of the current run
    repo_i,           \* main: position in sorted(config.repositories)
    main_latest,      \* main: latest_update
    latest_update,    \* handle_repo: latest_update
    package_cache,    \* handle_repo: package_cache
    find,             \* handle_repo: find
    packages,         \* handle_repo: packages
    releases,         \* handle_repo: the validated, sorted release list
    tag_i,            \* handle_repo: position of `tag` in releases
    asset_i,          \* handle_repo: position of `asset` in tag.assets
    error,            \* the exception in flight ("none" when there is none)
    runs,             \* number of runs started
    hist              \* history of the current run and what is kept of the earlier ones

vars == << published, cache_file, pool, index, release_file, pc, IS_CI, repo_i,
           main_latest, latest_update, package_cache, find, packages, releases,
           tag_i, asset_i, error, runs, hist >>

disk == << cache_file, pool, index, release_file >>
locals == << latest_update, package_cache, find, packages, releases, tag_i, asset_i >>

\* ------------------------------------------------------------------ helpers
Range(s) == {s[i] : i \in 1..Len(s)}

Missing == [state |-> "missing", entries |-> << >>]
Corrupt(kind) == [state |-> kind, entries |-> << >>]
Valid(entries) == [state |-> "valid", entries |-> entries]

NoRelease == [exists |-> FALSE, ts |-> zero_time, tree |-> << >>]

\* comparison of two key tuples of the same length, as Python compares tuples
RECURSIVE TupleLess(_, _)
TupleLess(k1, k2) ==
    IF k1 = << >> THEN FALSE
    ELSE IF Head(k1) # Head(k2) THEN Head(k1) < Head(k2)
         ELSE TupleLess(Tail(k1), Tail(k2))

\* x goes before y: smaller key first, larger key first with reverse=True
KeyBefore(x, y, reverse) ==
    IF reverse THEN TupleLess(y.key, x.key) ELSE TupleLess(x.key, y.key)

\* insert x, the element that followed those of s, keeping equal keys in order
RECURSIVE Insert(_, _, _)
Insert(x, s, reverse) ==
    IF s = << >> THEN << x >>
    ELSE IF KeyBefore(x, Head(s), reverse) THEN << x >> \o s
         ELSE << Head(s) >> \o Insert(x, Tail(s), reverse)

RECURSIVE SortKeyed(_, _)
SortKeyed(ks, reverse) ==
    IF ks = << >> THEN << >>
    ELSE Insert(ks[Len(ks)], SortKeyed(SubSeq(ks, 1, Len(ks) - 1), reverse), reverse)

\* sorted(s, key=..., reverse=...) and list.sort: stable, keys[i] is the key of s[i]
Sorted(s, keys, reverse) ==
    LET ks == [i \in 1..Len(s) |-> [val |-> s[i], key |-> keys[i]]]
        out == SortKeyed(ks, reverse)
    IN  [i \in 1..Len(s) |-> out[i].val]

\* ------------------------------------------------------------ pure functions
\* mutant: the sort without reverse=True
SortedReleases_NoReverse(rs) ==
    Sorted(rs, [i \in 1..Len(rs) |-> << rs[i].published_at >>], FALSE)

\* sorted(..., key=itemgetter("published_at"), reverse=True): newest first
SortedReleases(rs) ==
    Sorted(rs, [i \in 1..Len(rs) |-> << rs[i].published_at >>], TRUE)

\* mutant: the cache sort without reverse=True
SortedCache_NoReverse(cs) ==
    Sorted(cs, [i \in 1..Len(cs) |-> << cs[i].published_at, StrRank(cs[i].filename) >>], FALSE)

\* package_cache.sort(key=lambda c: (c.published_at, c.filename), reverse=True)
SortedCache(cs) ==
    Sorted(cs, [i \in 1..Len(cs) |-> << cs[i].published_at, StrRank(cs[i].filename) >>], TRUE)

\* sorted(config.repositories)
SortedRepos ==
    Sorted(repositories, [i \in 1..Len(repositories) |-> << StrRank(repositories[i]) >>], FALSE)

\* the list the release API returns for a project
Listing(repo) == SubSeq(Catalog(repo), 1, published[repo])

\* all(not asset.name.endswith(".deb") for asset in tag.assets)
NoDebAsset(tag) == \A i \in 1..Len(tag.assets) : ~IsDeb(tag.assets[i].name)

\* mutant: the lookup compares the filename only
CachedMatches_NameOnly(cs, tag, name) == SelectSeq(cs, LAMBDA c : c.filename = name)

\* mutant: the lookup compares the tag with the filename and the filename with the tag
CachedMatches_Swapped(cs, tag, name) ==
    SelectSeq(cs, LAMBDA c : c.tag = name /\ c.filename = tag)

\* mutant: the lookup is made in the list as it was loaded, without the entries
\* appended in this call
CachedMatches_Loaded(cs, tag, name) ==
    SelectSeq(hist.loaded[SortedRepos[repo_i]], LAMBDA c : c.tag = tag /\ c.filename = name)

\* [cache for cache in package_cache if cache.tag == tag and cache.filename == name]
CachedMatches(cs, tag, name) ==
    SelectSeq(cs, LAMBDA c : c.tag = tag /\ c.filename = name)

\* the files dpkg-scanpackages prints a block for, scanning the whole tree
Scanned(files) == files

\* the extractor process exits non-zero when a package file cannot be read
ExtractorFails(files) == \E f \in files : ContentOf(f) = "broken"

\* the tokens arch_pattern.search can return for the extractor's output
ArchsIn(files) == {ContentOf(f) : f \in {g \in files : ContentOf(g) \notin {"noarch", "broken"}}}

PackageCache(tag, filename, arch, package, at) ==
    [tag |-> tag, filename |-> filename, arch |-> arch, package |-> package,
     published_at |-> at]

\* the ISO-8601 texts, in UTC, of the instants -4, -3, ..., 3
IsoTexts == << "2019-12-28T00:00:00+00:00", "2019-12-29T00:00:00+00:00",
               "2019-12-30T00:00:00+00:00", "2019-12-31T00:00:00+00:00",
               "2020-01-01T00:00:00+00:00", "2020-01-02T00:00:00+00:00",
               "2020-01-03T00:00:00+00:00", "2020-01-04T00:00:00+00:00" >>

IsoInstants == [s \in {IsoTexts[i] : i \in 1..Len(IsoTexts)} |->
                   (CHOOSE i \in 1..Len(IsoTexts) : IsoTexts[i] = s) - 5]

\* val.astimezone(UTC).isoformat()
encode_json(val) == IsoTexts[val + 5]

\* mutant: the offset of the text is dropped and the wall-clock time is read in
\* the zone of the machine, one unit east of UTC
ParseDatetime_Local(s) == IsoInstants[s] - 1

\* the datetime pydantic validates from the text: the same instant, in UTC
ParseDatetime(s) == IsoInstants[s]

\* json.dumps([dataclasses.asdict(c) for c in package_cache], default=encode_json)
DumpCache(cs) ==
    [i \in 1..Len(cs) |-> [cs[i] EXCEPT !.published_at = encode_json(@)]]

\* TypeAdapter(list[PackageCache]).validate_python(json.loads(...))
ValidateCache(js) ==
    [i \in 1..Len(js) |-> [js[i] EXCEPT !.published_at = ParseDatetime(@)]]

\* the lines appended to the Packages files for the entries of `packages`
RECURSIVE IndexLines(_, _)
IndexLines(repo, ps) ==
    IF ps = << >> THEN << >>
    ELSE << [repo |-> repo, arch |-> Head(ps).arch, package |-> Head(ps).package] >>
         \o IndexLines(repo, Tail(ps))

\* which entries the appended blocks are of (for the history)
AppendedNames(r, ps) ==
    [i \in 1..Len(ps) |-> [repo |-> r, tag |-> ps[i].tag, name |-> ps[i].filename]]

\* --------------------------------------------------------------------- state
repo == SortedRepos[repo_i]
tag == releases[tag_i]
asset == tag.assets[asset_i]
local_name == [repo |-> repo, tag |-> tag.tag_name, name |-> asset.name]

\* what is kept of the earlier runs: whether the previous one completed, its
\* mode, whether upstream has changed since, the outputs of a completed CI run,
\* the list each project's last save wrote and the assets ever ingested
NoPrev == [ran |-> FALSE, ok |-> FALSE, ci |-> FALSE, changed |-> FALSE,
           index |-> << >>, handed |-> << >>,
           saved |-> [r \in Repos |-> << >>], ever |-> {}]

FreshHist(prev) ==
    [loaded |-> [r \in Repos |-> << >>], entered |-> {}, downloads |-> << >>,
     extractions |-> << >>, ingested |-> << >>, saves |-> << >>, indexed |-> {}, release_writes |-> 0,
     requests |-> << >>, examined |-> << >>, appended |-> << >>,
     saved_before |-> prev.saved,
     handed |-> << >>, cache_before |-> cache_file, release_before |-> release_file,
     pool_before |-> pool, prev |-> prev]

Init ==
    /\ published = [r \in Repos |-> 0]
    /\ cache_file \in [Repos -> {Missing, Corrupt("badjson"), Corrupt("badschema")}]
    /\ pool = {}
    /\ index = << >>
    /\ release_file = NoRelease
    /\ pc = "idle"
    /\ IS_CI = FALSE
    /\ repo_i = 1
    /\ main_latest = zero_time
    /\ latest_update = zero_time
    /\ package_cache = << >>
    /\ find = FALSE
    /\ packages = << >>
    /\ releases = << >>
    /\ tag_i = 1
    /\ asset_i = 1
    /\ error = "none"
    /\ runs = 0
    /\ hist = [FreshHist(NoPrev) EXCEPT !.cache_before = [r \in Repos |-> Missing]]

\* ------------------------------------------------------------- environment
\* upstream publishes its next release
Publish(r) ==
    /\ pc = "idle"
    /\ published[r] < Len(Catalog(r))
    /\ published' = [published EXCEPT ![r] = @ + 1]
    /\ hist' = [hist EXCEPT !.prev.changed = hist.prev.ran]
    /\ UNCHANGED << disk, pc, IS_CI, repo_i, main_latest, locals, error, runs >>

\* upstream deletes its newest release; enumerated for the releases the cache
\* holds an entry of, the ones whose deletion the program could tell
Withdraw(r) ==
    /\ pc = "idle"
    /\ published[r] > 0
    /\ \E e \in Range(cache_file[r].entries) : e.tag = Catalog(r)[published[r]].tag_name
    /\ published' = [published EXCEPT ![r] = @ - 1]
    /\ hist' = [hist EXCEPT !.prev.changed = hist.prev.ran]
    /\ UNCHANGED << disk, pc, IS_CI, repo_i, main_latest, locals, error, runs >>

\* ---------------------------------------------------------------------- main
\* main(), lines 209-219: the component tree is wiped, the project loop starts
StartRun(ci) ==
    /\ pc = "idle"
    /\ runs < MaxRuns
    /\ runs' = runs + 1
    /\ IS_CI' = ci
    /\ index' = << >>
    /\ main_latest' = zero_time
    /\ repo_i' = 1
    /\ error' = "none"
    /\ hist' = FreshHist(hist.prev)
    /\ pc' = IF Len(SortedRepos) >= 1 THEN "load" ELSE "release"
    /\ UNCHANGED << published, cache_file, pool, release_file, locals >>

\* mutant: the cache file is looked up under a name that is never written
LoadCache_WrongPath ==
    /\ pc = "load"
    /\ latest_update' = zero_time
    /\ find' = FALSE
    /\ packages' = << >>
    /\ package_cache' = << >>
    /\ hist' = [hist EXCEPT !.loaded[repo] = package_cache', !.entered = @ \cup {repo}]
    /\ pc' = "list"
    /\ UNCHANGED << published, disk, IS_CI, repo_i, main_latest, releases, tag_i,
                    asset_i, error, runs >>

\* mutant: the except clause for JSONDecodeError and ValidationError is missing
LoadCache_Uncaught ==
    /\ pc = "load"
    /\ latest_update' = zero_time
    /\ find' = FALSE
    /\ packages' = << >>
    /\ package_cache' = IF cache_file[repo].state = "valid"
                        THEN ValidateCache(cache_file[repo].entries) ELSE << >>
    /\ hist' = [hist EXCEPT !.loaded[repo] = package_cache', !.entered = @ \cup {repo}]
    /\ IF cache_file[repo].state \in {"valid", "missing"}
       THEN pc' = "list" /\ error' = "none"
       ELSE pc' = "failed" /\ error' = "cache"
    /\ UNCHANGED << published, disk, IS_CI, repo_i, main_latest, releases, tag_i,
                    asset_i, runs >>

\* handle_repo, lines 92-108: load the cache file, tolerating a corrupt one
LoadCache ==
    /\ pc = "load"
    /\ latest_update' = zero_time
    /\ find' = FALSE
    /\ packages' = << >>
    /\ IF cache_file[repo].state = "valid"
       THEN /\ package_cache' = ValidateCache(cache_file[repo].entries)
            /\ UNCHANGED cache_file
       ELSE /\ package_cache' = << >>
            /\ cache_file' = [cache_file EXCEPT ![repo] = Missing]
    /\ hist' = [hist EXCEPT !.loaded[repo] = package_cache', !.entered = @ \cup {repo}]
    /\ pc' = "list"
    /\ UNCHANGED << published, pool, index, release_file, IS_CI, repo_i, main_latest,
                    releases, tag_i, asset_i, error, runs >>

\* lines 111-122: the listing request, the sort and the validation succeed
ListReleases ==
    /\ pc = "list"
    /\ releases' = SortedReleases(Listing(repo))
    /\ tag_i' = 1
    /\ hist' = [hist EXCEPT !.requests = Append(@, [repo |-> repo, outcome |-> "ok"])]
    /\ pc' = "scan"
    /\ UNCHANGED << published, disk, IS_CI, repo_i, main_latest, latest_update,
                    package_cache, find, packages, asset_i, error, runs >>

\* mutant: the error of the listing is swallowed, the project has no releases
ListReleasesFails_Swallowed(kind) ==
    /\ pc = "list"
    /\ releases' = << >>
    /\ tag_i' = 1
    /\ hist' = [hist EXCEPT !.requests = Append(@, [repo |-> repo, outcome |-> kind])]
    /\ pc' = "scan"
    /\ UNCHANGED << published, disk, IS_CI, repo_i, main_latest, latest_update,
                    package_cache, find, packages, asset_i, error, runs >>

\* lines 111-122: raise_for_status() or the validation raises
ListReleasesFails(kind) ==
    /\ pc = "list"
    /\ error' = kind
    /\ hist' = [hist EXCEPT !.requests = Append(@, [repo |-> repo, outcome |-> kind])]
    /\ pc' = "save"
    /\ UNCHANGED << published, disk, IS_CI, repo_i, main_latest, locals, runs >>

\* lines 123-125: the loop ends, by exhaustion or by `if find: break`
ScanEnds ==
    /\ pc = "scan"
    /\ tag_i > Len(releases) \/ find
    /\ pc' = "save"
    /\ UNCHANGED << published, disk, IS_CI, repo_i, main_latest, locals, error, runs, hist >>

\* lines 129-130: a release without a .deb asset is passed over
SkipRelease ==
    /\ pc = "scan"
    /\ tag_i <= Len(releases) /\ ~find
    /\ NoDebAsset(tag)
    /\ tag_i' = tag_i + 1
    /\ UNCHANGED << published, disk, pc, IS_CI, repo_i, main_latest, latest_update,
                    package_cache, find, packages, releases, asset_i, error, runs, hist >>

\* mutant: `find` is not set, the scan goes on to the older releases
EnterRelease_NoFind ==
    /\ pc = "scan"
    /\ tag_i <= Len(releases) /\ ~find
    /\ ~NoDebAsset(tag)
    /\ latest_update' = Max(tag.published_at, latest_update)
    /\ asset_i' = 1
    /\ hist' = [hist EXCEPT !.examined = Append(@, [repo |-> repo, tag |-> tag.tag_name])]
    /\ pc' = "asset"
    /\ UNCHANGED << published, disk, IS_CI, repo_i, main_latest, package_cache, find,
                    packages, releases, tag_i, error, runs >>

\* lines 132-135: the release is examined
EnterRelease ==
    /\ pc = "scan"
    /\ tag_i <= Len(releases) /\ ~find
    /\ ~NoDebAsset(tag)
    /\ latest_update' = Max(tag.published_at, latest_update)
    /\ find' = TRUE
    /\ asset_i' = 1
    /\ hist' = [hist EXCEPT !.examined = Append(@, [repo |-> repo, tag |-> tag.tag_name])]
    /\ pc' = "asset"
    /\ UNCHANGED << published, disk, IS_CI, repo_i, main_latest, package_cache, packages,
                    releases, tag_i, error, runs >>

\* line 135: the assets of the release are exhausted
AssetsEnd ==
    /\ pc = "asset"
    /\ asset_i > Len(tag.assets)
    /\ tag_i' = tag_i + 1
    /\ pc' = "scan"
    /\ UNCHANGED << published, disk, IS_CI, repo_i, main_latest, latest_update,
                    package_cache, find, packages, releases, asset_i, error, runs, hist >>

\* lines 136-137
SkipAsset ==
    /\ pc = "asset"
    /\ asset_i <= Len(tag.assets)
    /\ ~IsDeb(asset.name)
    /\ asset_i' = asset_i + 1
    /\ UNCHANGED << published, disk, pc, IS_CI, repo_i, main_latest, latest_update,
                    package_cache, find, packages, releases, tag_i, error, runs, hist >>

\* lines 139-146
ReuseCached ==
    /\ pc = "asset"
    /\ asset_i <= Len(tag.assets)
    /\ IsDeb(asset.name)
    /\ CachedMatches(package_cache, tag.tag_name, asset.name) # << >>
    /\ packages' = Append(packages, CachedMatches(package_cache, tag.tag_name, asset.name)[1])
    /\ asset_i' = asset_i + 1
    /\ UNCHANGED << published, disk, pc, IS_CI, repo_i, main_latest, latest_update,
                    package_cache, find, releases, tag_i, error, runs, hist >>

Uncached ==
    /\ pc = "asset"
    /\ asset_i <= Len(tag.assets)
    /\ IsDeb(asset.name)
    /\ CachedMatches(package_cache, tag.tag_name, asset.name) = << >>

\* lines 147-160: client.get raises (timeout, connection error)
DownloadFails ==
    /\ Uncached
    /\ error' = "download"
    /\ pc' = "save"
    /\ UNCHANGED << published, disk, IS_CI, repo_i, main_latest, locals, runs, hist >>

\* mutant: the IS_CI test is missing, the binary is extracted and deleted
DownloadOnly_Extracts ==
    /\ Uncached
    /\ ~IS_CI
    /\ ~ExtractorFails(pool \cup {local_name})
    /\ \E arch \in ArchsIn(Scanned(pool \cup {local_name})) :
          LET c == PackageCache(tag.tag_name, asset.name, arch,
                                Scanned(pool \cup {local_name}), tag.published_at)
          IN  /\ package_cache' = Append(package_cache, c)
              /\ packages' = Append(packages, c)
    /\ pool' = pool \ {local_name}
    /\ hist' = [hist EXCEPT !.downloads = Append(@, local_name),
                            !.extractions = Append(@, [file |-> local_name,
                                                       tree |-> pool \cup {local_name}])]
    /\ asset_i' = asset_i + 1
    /\ UNCHANGED << published, cache_file, index, release_file, pc, IS_CI, repo_i,
                    main_latest, latest_update, find, releases, tag_i, error, runs >>

\* lines 147-162 without CI: the binary is written and kept
DownloadOnly ==
    /\ Uncached
    /\ ~IS_CI
    /\ pool' = pool \cup {local_name}
    /\ hist' = [hist EXCEPT !.downloads = Append(@, local_name)]
    /\ asset_i' = asset_i + 1
    /\ UNCHANGED << published, cache_file, index, release_file, pc, IS_CI, repo_i,
                    main_latest, latest_update, package_cache, find, packages, releases,
                    tag_i, error, runs >>

\* lines 147-166 in CI: the extractor process fails
ExtractorError ==
    /\ Uncached
    /\ IS_CI
    /\ ExtractorFails(pool \cup {local_name})
    /\ pool' = pool \cup {local_name}
    /\ hist' = [hist EXCEPT !.downloads = Append(@, local_name),
                            !.extractions = Append(@, [file |-> local_name,
                                                       tree |-> pool \cup {local_name}])]
    /\ error' = "extractor"
    /\ pc' = "save"
    /\ UNCHANGED << published, cache_file, index, release_file, IS_CI, repo_i, main_latest,
                    locals, runs >>

\* mutant: a missing Architecture line is recorded as an empty architecture
ArchMissing_Recorded ==
    /\ Uncached
    /\ IS_CI
    /\ ~ExtractorFails(pool \cup {local_name})
    /\ ArchsIn(Scanned(pool \cup {local_name})) = {}
    /\ LET c == PackageCache(tag.tag_name, asset.name, "", Scanned(pool \cup {local_name}),
                             tag.published_at)
       IN  /\ package_cache' = Append(package_cache, c)
           /\ packages' = Append(packages, c)
    /\ pool' = pool \ {local_name}
    /\ hist' = [hist EXCEPT !.downloads = Append(@, local_name),
                            !.extractions = Append(@, [file |-> local_name,
                                                       tree |-> pool \cup {local_name}])]
    /\ asset_i' = asset_i + 1
    /\ UNCHANGED << published, cache_file, index, release_file, pc, IS_CI, repo_i,
                    main_latest, latest_update, find, releases, tag_i, error, runs >>

\* lines 147-172 in CI: the output has no Architecture line
ArchMissing ==
    /\ Uncached
    /\ IS_CI
    /\ ~ExtractorFails(pool \cup {local_name})
    /\ ArchsIn(Scanned(pool \cup {local_name})) = {}
    /\ pool' = pool \cup {local_name}
    /\ hist' = [hist EXCEPT !.downloads = Append(@, local_name),
                            !.extractions = Append(@, [file |-> local_name,
                                                       tree |-> pool \cup {local_name}])]
    /\ error' = "arch"
    /\ pc' = "save"
    /\ UNCHANGED << published, cache_file, index, release_file, IS_CI, repo_i, main_latest,
                    locals, runs >>

\* mutant: the new entry is appended to `packages` only, not to package_cache
Ingest_NoCacheAppend(arch) ==
    /\ Uncached
    /\ IS_CI
    /\ ~ExtractorFails(pool \cup {local_name})
    /\ arch \in ArchsIn(Scanned(pool \cup {local_name}))
    /\ packages' = Append(packages, PackageCache(tag.tag_name, asset.name, arch,
                                                 Scanned(pool \cup {local_name}),
                                                 tag.published_at))
    /\ pool' = pool \ {local_name}
    /\ hist' = [hist EXCEPT !.downloads = Append(@, local_name),
                            !.extractions = Append(@, [file |-> local_name,
                                                       tree |-> pool \cup {local_name}]),
                            !.ingested = Append(@, [file |-> local_name, arch |-> arch,
                                                    tree |-> pool \cup {local_name}]),
                            !.prev.ever = @ \cup {local_name}]
    /\ asset_i' = asset_i + 1
    /\ UNCHANGED << published, cache_file, index, release_file, pc, IS_CI, repo_i,
                    main_latest, latest_update, package_cache, find, releases, tag_i,
                    error, runs >>

\* lines 147-184 in CI: download, extract, record the entry, delete the binary
Ingest(arch) ==
    /\ Uncached
    /\ IS_CI
    /\ ~ExtractorFails(pool \cup {local_name})
    /\ arch \in ArchsIn(Scanned(pool \cup {local_name}))
    /\ LET c == PackageCache(tag.tag_name, asset.name, arch,
                             Scanned(pool \cup {local_name}), tag.published_at)
       IN  /\ package_cache' = Append(package_cache, c)
           /\ packages' = Append(packages, c)
    /\ pool' = pool \ {local_name}
    /\ hist' = [hist EXCEPT !.downloads = Append(@, local_name),
                            !.extractions = Append(@, [file |-> local_name,
                                                       tree |-> pool \cup {local_name}]),
                            !.ingested = Append(@, [file |-> local_name, arch |-> arch,
                                                    tree |-> pool \cup {local_name}]),
                            !.prev.ever = @ \cup {local_name}]
    /\ asset_i' = asset_i + 1
    /\ UNCHANGED << published, cache_file, index, release_file, pc, IS_CI, repo_i,
                    main_latest, latest_update, find, releases, tag_i, error, runs >>

\* mutant: the save is not in a finally block, an exception skips it
SaveCache_NoFinally ==
    /\ pc = "save"
    /\ IF error = "none"
       THEN /\ package_cache' = SortedCache(package_cache)
            /\ cache_file' = [cache_file EXCEPT ![repo] = Valid(DumpCache(package_cache'))]
            /\ hist' = [hist EXCEPT !.saves = Append(@, [repo |-> repo,
                                                         entries |-> package_cache',
                                                         error |-> error]),
                                    !.prev.saved[repo] = package_cache']
            /\ pc' = "index"
       ELSE /\ UNCHANGED << package_cache, cache_file, hist >>
            /\ pc' = "failed"
    /\ UNCHANGED << published, pool, index, release_file, IS_CI, repo_i, main_latest,
                    latest_update, find, packages, releases, tag_i, asset_i, error, runs >>

\* mutant: the file is written from `packages`, the entries of the release examined
SaveCache_OnlyPackages ==
    /\ pc = "save"
    /\ package_cache' = SortedCache(package_cache)
    /\ cache_file' = [cache_file EXCEPT ![repo] = Valid(DumpCache(SortedCache(packages)))]
    /\ hist' = [hist EXCEPT !.saves = Append(@, [repo |-> repo,
                                                 entries |-> SortedCache(packages),
                                                 error |-> error]),
                            !.prev.saved[repo] = SortedCache(packages)]
    /\ pc' = IF error = "none" THEN "index" ELSE "failed"
    /\ UNCHANGED << published, pool, index, release_file, IS_CI, repo_i, main_latest,
                    latest_update, find, packages, releases, tag_i, asset_i, error, runs >>

\* lines 185-195 (finally): sort and write the cache file; an exception in flight
\* then leaves handle_repo and main
SaveCache ==
    /\ pc = "save"
    /\ package_cache' = SortedCache(package_cache)
    /\ cache_file' = [cache_file EXCEPT ![repo] = Valid(DumpCache(package_cache'))]
    /\ hist' = [hist EXCEPT !.saves = Append(@, [repo |-> repo, entries |-> package_cache',
                                                 error |-> error]),
                            !.prev.saved[repo] = package_cache']
    /\ pc' = IF error = "none" THEN "index" ELSE "failed"
    /\ UNCHANGED << published, pool, index, release_file, IS_CI, repo_i, main_latest,
                    latest_update, find, packages, releases, tag_i, asset_i, error, runs >>

\* mutant: the Release file is generated inside the project loop
WriteIndex_ReleaseInLoop ==
    /\ pc = "index"
    /\ index' = index \o IndexLines(repo, packages)
    /\ main_latest' = IF latest_update >= main_latest THEN latest_update ELSE main_latest
    /\ release_file' = IF IS_CI
                       THEN [exists |-> TRUE, ts |-> main_latest', tree |-> index']
                       ELSE release_file
    /\ hist' = [hist EXCEPT !.indexed = @ \cup {repo},
                            !.appended = @ \o AppendedNames(repo, packages),
                            !.release_writes = IF IS_CI THEN @ + 1 ELSE @]
    /\ IF repo_i < Len(SortedRepos)
       THEN repo_i' = repo_i + 1 /\ pc' = "load"
       ELSE repo_i' = repo_i /\ pc' = "release"
    /\ UNCHANGED << published, cache_file, pool, IS_CI, locals, error, runs >>

\* mutant: the blocks are appended in the order of the cache sort
WriteIndex_SaveOrder ==
    /\ pc = "index"
    /\ index' = index \o IndexLines(repo, SortedCache(packages))
    /\ main_latest' = Max(main_latest, latest_update)
    /\ hist' = [hist EXCEPT !.indexed = @ \cup {repo},
                            !.appended = @ \o AppendedNames(repo, SortedCache(packages))]
    /\ IF repo_i < Len(SortedRepos)
       THEN repo_i' = repo_i + 1 /\ pc' = "load"
       ELSE repo_i' = repo_i /\ pc' = "release"
    /\ UNCHANGED << published, cache_file, pool, release_file, IS_CI, locals, error, runs >>

\* lines 197-205 and 221-222: append the blocks, return, go to the next project
WriteIndex ==
    /\ pc = "index"
    /\ index' = index \o IndexLines(repo, packages)
    /\ main_latest' = Max(main_latest, latest_update)
    /\ hist' = [hist EXCEPT !.indexed = @ \cup {repo},
                            !.appended = @ \o AppendedNames(repo, packages)]
    /\ IF repo_i < Len(SortedRepos)
       THEN repo_i' = repo_i + 1 /\ pc' = "load"
       ELSE repo_i' = repo_i /\ pc' = "release"
    /\ UNCHANGED << published, cache_file, pool, release_file, IS_CI, locals, error, runs >>

\* lines 224-244: the Release file, in CI only
GenerateRelease ==
    /\ pc = "release"
    /\ IF IS_CI
       THEN /\ release_file' = [exists |-> TRUE, ts |-> main_latest, tree |-> index]
            /\ hist' = [hist EXCEPT !.release_writes = @ + 1,
                                    !.handed = Append(@, main_latest)]
       ELSE UNCHANGED << release_file, hist >>
    /\ pc' = "done"
    /\ UNCHANGED << published, cache_file, pool, index, IS_CI, repo_i, main_latest, locals,
                    error, runs >>

\* the process exits: its memory is gone, the files stay for the next run
EndRun ==
    /\ pc \in {"done", "failed"}
    /\ hist' = [FreshHist(NoPrev) EXCEPT
                   !.cache_before = [r \in Repos |-> Missing],
                   !.release_before = NoRelease,
                   !.pool_before = {},
                   !.prev = [ran |-> TRUE, ok |-> (pc = "done"), ci |-> IS_CI,
                             changed |-> FALSE,
                             index |-> IF pc = "done" /\ IS_CI THEN index ELSE << >>,
                             handed |-> IF pc = "done" /\ IS_CI THEN hist.handed ELSE << >>,
                             saved |-> hist.prev.saved, ever |-> hist.prev.ever]]
    /\ pc' = "idle"
    /\ IS_CI' = FALSE
    /\ repo_i' = 1
    /\ main_latest' = zero_time
    /\ latest_update' = zero_time
    /\ package_cache' = << >>
    /\ find' = FALSE
    /\ packages' = << >>
    /\ releases' = << >>
    /\ tag_i' = 1
    /\ asset_i' = 1
    /\ error' = "none"
    /\ UNCHANGED << published, disk, runs >>

Next ==
    \/ \E r \in Repos : Publish(r)
    \/ \E r \in Repos : Withdraw(r)
    \/ \E ci \in BOOLEAN : StartRun(ci)
    \/ LoadCache
    \/ ListReleases
    \/ \E kind \in {"http", "validation"} : ListReleasesFails(kind)
    \/ ScanEnds
    \/ SkipRelease
    \/ EnterRelease
    \/ AssetsEnd
    \/ SkipAsset
    \/ ReuseCached
    \/ DownloadFails
    \/ DownloadOnly
    \/ ExtractorError
    \/ ArchMissing
    \/ \E arch \in {"amd64", "arm64"} : Ingest(arch)
    \/ SaveCache
    \/ WriteIndex
    \/ GenerateRelease
    \/ EndRun

Spec == Init /\ [][Next]_vars

TypeOK ==
    /\ pc \in {"idle", "load", "list", "scan", "asset", "save", "index", "release",
               "done", "failed"}
    /\ error \in {"none", "http", "validation", "download", "extractor", "arch"}
    /\ runs \in 0..MaxRuns

\* ------------------------------------------------------------ claim helpers
Count(s, x) == Cardinality({i \in 1..Len(s) : s[i] = x})

SameBag(s, t) == Len(s) = Len(t) /\ \A x \in Range(s) \cup Range(t) : Count(s, x) = Count(t, x)

MaxOf(S) == CHOOSE x \in S : \A y \in S : y <= x

InRun == pc # "idle"

\* the blocks handle_repo(r) appended to the Packages files in this run
RepoLines(r) == SelectSeq(index, LAMBDA l : l.repo = r)

BlockOf(r, e) == [repo |-> r, arch |-> e.arch, package |-> e.package]

BlocksOf(r, es) == [i \in 1..Len(es) |-> BlockOf(r, es[i])]

HasEntry(es, t, n) == \E e \in Range(es) : e.tag = t /\ e.filename = n

EntryFor(es, t, n) == CHOOSE e \in Range(es) : e.tag = t /\ e.filename = n

\* positions, among the first n releases of the catalog, of those with a .deb asset
DebIdxOf(r, n) == {i \in 1..n : \E k \in 1..Len(Catalog(r)[i].assets) :
                                    IsDeb(Catalog(r)[i].assets[k].name)}

\* the position of the newest of them by published_at (the first listed among
\* equals), 0 when there is none
NewestDebIdx == [r \in Repos |-> [n \in 0..Len(Catalog(r)) |->
    IF DebIdxOf(r, n) = {} THEN 0
    ELSE CHOOSE i \in DebIdxOf(r, n) : \A j \in DebIdxOf(r, n) :
             \/ Catalog(r)[j].published_at < Catalog(r)[i].published_at
             \/ Catalog(r)[j].published_at = Catalog(r)[i].published_at /\ i <= j]]

\* upstream lists a release with a .deb asset
HasDebRelease(r) == NewestDebIdx[r][published[r]] # 0

\* the newest release with a .deb asset that upstream lists
NewestDebRelease(r) == Catalog(r)[NewestDebIdx[r][published[r]]]

DebAssets(rel) == SelectSeq(rel.assets, LAMBDA a : IsDeb(a.name))

\* the blocks of the saved entries of the .deb assets of the newest such release,
\* one per listed asset that has an entry, in listing order
ExaminedLines(r) ==
    IF ~HasDebRelease(r) THEN << >>
    ELSE LET rel == NewestDebRelease(r)
             es == cache_file[r].entries
             has == SelectSeq(DebAssets(rel), LAMBDA a : HasEntry(es, rel.tag_name, a.name))
         IN  [i \in 1..Len(has) |-> BlockOf(r, EntryFor(es, rel.tag_name, has[i].name))]

\* every .deb asset of the release has an entry in es
FullyCached(rel, es) ==
    \A k \in 1..Len(rel.assets) :
        IsDeb(rel.assets[k].name) => HasEntry(es, rel.tag_name, rel.assets[k].name)

FileOf(r, rel, a) == [repo |-> r, tag |-> rel.tag_name, name |-> a.name]

\* the entries a load of the project's cache file yields
Stored(r) == ValidateCache(cache_file[r].entries)

\* ---------------------------------------------------------------------- C1
\* C1 (as stated): after a run that completes without error, the blocks written
\* to the Packages files for a project are exactly the blocks of all the entries
\* of the project's saved cache (loaded before the run or ingested in it), not only
\* those of the releases visited in this run.  Stated on the sets of blocks, so
\* that an upstream listing that repeats a filename is not what decides it, and
\* on the CI runs, the ones that ingest.
C1_AllCachedEntriesIndexed ==
    (pc = "done" /\ IS_CI) =>
        \A r \in Repos : Range(RepoLines(r)) = Range(BlocksOf(r, cache_file[r].entries))

\* C1 (amended): after a run that completes without error, the blocks written for
\* a project are exactly the blocks of the saved cache entries of the .deb assets
\* listed by the one release examined (the newest release that has a .deb asset),
\* one block per listed asset that has an entry, each under the entry's
\* architecture; entries of other releases are not written.
C1_ExaminedReleaseIndexed ==
    pc = "done" => \A r \in Repos : RepoLines(r) = ExaminedLines(r)

C1_Witness ==
    /\ pc = "done" /\ IS_CI
    /\ \E r \in Repos : /\ hist.loaded[r] # << >>
                        /\ \E i \in 1..Len(hist.ingested) : hist.ingested[i].file.repo = r
                        /\ Len(cache_file[r].entries) > Len(RepoLines(r))
                        /\ Len(RepoLines(r)) > 0

\* ---------------------------------------------------------------------- C2
SortedListing(r) == SortedReleases(Listing(r))

\* the release is fully represented by the entries es; with `strict`, a release
\* without any .deb asset is not counted as represented
Represented(rel, es, strict) ==
    /\ FullyCached(rel, es)
    /\ strict => DebAssets(rel) # << >>

\* position of the first release of the order that the loaded cache represents
StopIdx(r, strict) ==
    LET s == SortedListing(r)
        full == {i \in 1..Len(s) : Represented(s[i], hist.loaded[r], strict)}
    IN  IF full = {} THEN Len(s) + 1 ELSE CHOOSE i \in full : \A j \in full : i <= j

TagIdx(r, t) == CHOOSE i \in 1..Len(SortedListing(r)) : SortedListing(r)[i].tag_name = t

StopsAtFirstRepresented(strict) ==
    /\ \A i \in 1..Len(hist.downloads) :
           TagIdx(hist.downloads[i].repo, hist.downloads[i].tag)
              < StopIdx(hist.downloads[i].repo, strict)
    /\ IS_CI =>
         \A r \in hist.indexed : \A i \in 1..Len(SortedListing(r)) :
            i < StopIdx(r, strict) =>
               \A k \in 1..Len(SortedListing(r)[i].assets) :
                  LET rel == SortedListing(r)[i]
                      a == rel.assets[k]
                  IN  (IsDeb(a.name) /\ ~HasEntry(hist.loaded[r], rel.tag_name, a.name))
                         => \E n \in 1..Len(hist.ingested) :
                               hist.ingested[n].file = FileOf(r, rel, a)

\* C2 (as stated): the scan stops at the first release the cache fully represents;
\* every release before it with an uncached .deb asset is ingested in the same run
\* (once handle_repo has returned) and no release after it is downloaded from.
\* Taken to hold when it does whether or not a release without .deb assets counts
\* as fully represented.
C2_StopsAtFirstFullyCached ==
    StopsAtFirstRepresented(TRUE) \/ StopsAtFirstRepresented(FALSE)

\* C2 (amended): the releases are visited in descending published_at order and the
\* scan stops right after the first release that has a .deb asset, cached or not:
\* downloads come from that release only, and when handle_repo returns without
\* error every .deb asset of it that the loaded cache does not hold has been
\* downloaded (in CI: ingested).  For [Jan-3 uncached, Jan-2 cached, Jan-1 cached]
\* only Jan-3 is fetched.
C2_StopsAfterNewestDebRelease ==
    /\ \A i \in 1..Len(hist.downloads) :
           /\ HasDebRelease(hist.downloads[i].repo)
           /\ hist.downloads[i].tag = NewestDebRelease(hist.downloads[i].repo).tag_name
    /\ \A r \in hist.indexed :
           HasDebRelease(r) =>
              LET rel == NewestDebRelease(r)
              IN  \A k \in 1..Len(rel.assets) :
                     (IsDeb(rel.assets[k].name)
                        /\ ~HasEntry(hist.loaded[r], rel.tag_name, rel.assets[k].name))
                     => /\ FileOf(r, rel, rel.assets[k]) \in Range(hist.downloads)
                        /\ IS_CI => \E n \in 1..Len(hist.ingested) :
                                       hist.ingested[n].file = FileOf(r, rel, rel.assets[k])

\* the newest release is new, the older one is cached: only the newest is fetched
C2_Witness ==
    /\ pc = "done" /\ IS_CI
    /\ published["a"] = 2
    /\ HasEntry(hist.loaded["a"], "v1", "x.deb") /\ HasEntry(hist.loaded["a"], "v1", "y.deb")
    /\ ~HasEntry(hist.loaded["a"], "v2", "x.deb")
    /\ SelectSeq(hist.downloads, LAMBDA d : d.repo = "a")
          = << [repo |-> "a", tag |-> "v2", name |-> "x.deb"],
               [repo |-> "a", tag |-> "v2", name |-> "y.deb"] >>

\* ---------------------------------------------------------------------- C3
\* C3: an asset that has an entry (same tag and filename) in the cache loaded at
\* the start of handle_repo is neither downloaded nor handed to the extractor, and
\* the block written to the index for it is the stored block of that entry.
C3_CachedAssetReused ==
    /\ \A i \in 1..Len(hist.downloads) :
           ~HasEntry(hist.loaded[hist.downloads[i].repo], hist.downloads[i].tag,
                     hist.downloads[i].name)
    /\ \A i \in 1..Len(hist.extractions) :
           ~HasEntry(hist.loaded[hist.extractions[i].file.repo],
                     hist.extractions[i].file.tag, hist.extractions[i].file.name)
    /\ \A r \in hist.indexed :
           HasDebRelease(r) =>
              LET rel == NewestDebRelease(r)
              IN  \A k \in 1..Len(rel.assets) :
                     (IsDeb(rel.assets[k].name)
                        /\ HasEntry(hist.loaded[r], rel.tag_name, rel.assets[k].name))
                     => Count(RepoLines(r),
                              BlockOf(r, EntryFor(hist.loaded[r], rel.tag_name,
                                                  rel.assets[k].name)))
                        = Count(DebAssets(rel), rel.assets[k])

C3_Witness ==
    /\ pc = "done"
    /\ HasEntry(hist.loaded["a"], "v1", "x.deb")
    /\ published["a"] = 1
    /\ Len(RepoLines("a")) = 2
    /\ hist.downloads # << >>

\* ---------------------------------------------------------------------- C4
\* a CI run that follows a CI run which completed, with upstream and the cache
\* files as that run left them
RepeatedRun ==
    /\ InRun /\ IS_CI
    /\ hist.prev.ran /\ hist.prev.ok /\ hist.prev.ci
    /\ ~hist.prev.changed

\* C4: a second CI run over unchanged upstream, started from the cache files the
\* first (completed) run left, downloads nothing, and when it completes the
\* Packages files, the timestamp handed to the Release generator and every cache
\* file are what they were after the first run.
C4_Idempotent ==
    RepeatedRun =>
        /\ hist.downloads = << >>
        /\ hist.extractions = << >>
        /\ pc = "done" => /\ index = hist.prev.index
                          /\ hist.handed = hist.prev.handed
                          /\ cache_file = hist.cache_before

C4_Witness ==
    /\ RepeatedRun /\ pc = "done"
    /\ Len(cache_file["a"].entries) >= 2
    /\ Len(cache_file["b"].entries) >= 1
    /\ Len(index) >= 3

\* ---------------------------------------------------------------------- C5
PublishedAt == [f \in Files |->
                   (CHOOSE rel \in Range(Catalog(f.repo)) : rel.tag_name = f.tag).published_at]

\* the entries this run ingested for project r
IngestedEntries(r) ==
    {PackageCache(g.file.tag, g.file.name, g.arch, g.tree, PublishedAt[g.file]) :
        g \in {h \in Range(hist.ingested) : h.file.repo = r}}

\* C5: when an error leaves handle_repo, the project's cache file has been written
\* and holds exactly the entries loaded at the start plus the entries ingested
\* before the error; a retry that starts from these files downloads none of them.
C5_CacheSavedOnError ==
    /\ error # "none" => pc \in {"save", "failed"}
    /\ pc = "failed" =>
          /\ cache_file[repo].state = "valid"
          /\ Range(Stored(repo)) = Range(hist.loaded[repo]) \cup IngestedEntries(repo)
          /\ Len(cache_file[repo].entries)
                = Len(hist.loaded[repo]) + Cardinality(IngestedEntries(repo))
    /\ (InRun /\ hist.prev.ran /\ ~hist.prev.ok) =>
          \A i \in 1..Len(hist.downloads) :
             ~HasEntry(hist.cache_before[hist.downloads[i].repo].entries,
                       hist.downloads[i].tag, hist.downloads[i].name)

C5_Witness ==
    /\ pc = "failed"
    /\ hist.loaded[repo] # << >>
    /\ IngestedEntries(repo) # {}

\* ---------------------------------------------------------------------- C6
\* an extractor run that succeeded as a process and printed no Architecture line
NoArchOutput(x) == ~ExtractorFails(x.tree) /\ ArchsIn(Scanned(x.tree)) = {}

\* C6: in CI, when the extractor output for a downloaded asset has no Architecture
\* line, the error ends the run (it is the last asset downloaded, its project is
\* the last one entered, nothing is indexed for it, no Release is written) and the
\* cache file written by the run has no entry for that (tag, filename).
C6_FatalOnMissingArch ==
    \A i \in 1..Len(hist.extractions) :
        NoArchOutput(hist.extractions[i]) =>
            LET f == hist.extractions[i].file
            IN  /\ IS_CI
                /\ error = "arch"
                /\ pc \in {"save", "failed"}
                /\ i = Len(hist.extractions)
                /\ hist.downloads[Len(hist.downloads)] = f
                /\ f.repo = repo
                /\ repo \notin hist.indexed
                /\ hist.release_writes = 0
                /\ ~HasEntry(package_cache, f.tag, f.name)
                /\ pc = "failed" => /\ cache_file[f.repo].state = "valid"
                                    /\ ~HasEntry(cache_file[f.repo].entries, f.tag, f.name)

C6_Witness ==
    /\ pc = "failed" /\ error = "arch"
    /\ NoArchOutput(hist.extractions[Len(hist.extractions)])
    /\ hist.indexed = {"a"}
    /\ cache_file["b"].entries # << >>

\* ---------------------------------------------------------------------- C7
CorruptAtStart(r) == hist.cache_before[r].state \in {"badjson", "badschema"}

InHandleRepo(r) == repo = r /\ pc \in {"list", "scan", "asset", "save"}

\* C7: a corrupt cache file does not make handle_repo raise: the run goes on with
\* an empty cache, the corrupt file is removed, and once handle_repo has ended for
\* the project, with or without an error of the scan, the cache file is a valid
\* entry list (of the entries ingested in this run).
C7_CorruptCacheRecovery ==
    /\ pc = "list" => error = "none"
    /\ \A r \in hist.entered :
          CorruptAtStart(r) =>
             /\ hist.loaded[r] = << >>
             /\ InHandleRepo(r) => cache_file[r] = Missing
             /\ ~InHandleRepo(r) => /\ cache_file[r].state = "valid"
                                    /\ Range(Stored(r)) = IngestedEntries(r)

C7_Witness ==
    /\ pc = "failed"
    /\ CorruptAtStart("a") /\ CorruptAtStart("b")
    /\ hist.entered = {"a", "b"}
    /\ cache_file["a"].entries # << >>

\* ---------------------------------------------------------------------- C8
\* C8: the Release file is written at most once per run, only after handle_repo
\* has returned without error for every project; until then, and in a run that
\* fails, it is what it was before the run.
C8_ReleaseOnlyAfterAllProjects ==
    InRun =>
        /\ hist.release_writes <= 1
        /\ hist.release_writes = 1 => (hist.indexed = Repos /\ error = "none" /\ pc = "done")
        /\ pc # "done" => release_file = hist.release_before
        /\ release_file # hist.release_before => hist.release_writes = 1

C8_Witness ==
    /\ pc = "failed"
    /\ hist.release_before.exists
    /\ hist.indexed = {"a"}
    /\ index # << >>
    /\ index # hist.release_before.tree
    /\ release_file = hist.release_before

\* ---------------------------------------------------------------------- C9
\* C9 (as stated): a run without the CI flag writes no cache: no entry is created,
\* the extractor is not invoked, the binary stays, no cache file is created or
\* rewritten.
C9_NoCacheWriteOutsideCI ==
    (InRun /\ ~IS_CI) =>
        /\ hist.extractions = << >>
        /\ hist.ingested = << >>
        /\ Range(hist.downloads) \subseteq pool
        /\ hist.saves = << >>

\* C9 (amended): a run without the CI flag creates no cache entry, never invokes
\* the extractor and keeps every downloaded binary on disk; the cache file of each
\* project it processes is still rewritten (created when missing or corrupt), with
\* exactly the entries loaded at the start of handle_repo.
C9_NoNewEntryOutsideCI ==
    (InRun /\ ~IS_CI) =>
        /\ hist.extractions = << >>
        /\ hist.ingested = << >>
        /\ Range(hist.downloads) \subseteq pool
        /\ \A i \in 1..Len(hist.saves) :
              SameBag(hist.saves[i].entries, hist.loaded[hist.saves[i].repo])
        /\ \A r \in hist.entered :
              ~InHandleRepo(r) => /\ cache_file[r].state = "valid"
                                  /\ SameBag(Stored(r), hist.loaded[r])

C9_Witness ==
    /\ pc = "done" /\ ~IS_CI
    /\ hist.downloads # << >>
    /\ hist.loaded["a"] # << >>
    /\ hist.cache_before["b"].state = "missing"
    /\ cache_file["b"] = Valid(<< >>)

\* --------------------------------------------------------------------- C10
\* the releases of the listings with a .deb asset the loaded cache does not hold
UncachedTimes ==
    UNION {{Catalog(r)[i].published_at :
               i \in {j \in DebIdxOf(r, published[r]) : ~FullyCached(Catalog(r)[j], hist.loaded[r])}} :
           r \in Repos}

\* the releases an asset was downloaded from in this run
FetchedTimes == {PublishedAt[d] : d \in Range(hist.downloads)}

\* C10 (as stated): the timestamp handed to the Release summarizer is the maximum
\* published_at over the releases newly discovered (not already cached) in the run,
\* across all projects; zero_time, the value main starts from, when nothing newer
\* is new.  Taken to hold when it does for either reading of "newly discovered":
\* listed and not fully cached, or downloaded from in this run.
C10_MaxOverNewReleases ==
    (pc = "done" /\ IS_CI) =>
        \/ hist.handed = << MaxOf(UncachedTimes \cup {zero_time}) >>
        \/ hist.handed = << MaxOf(FetchedTimes \cup {zero_time}) >>

\* the published_at of the release each project examines
ExaminedTimes == {NewestDebRelease(r).published_at : r \in {q \in Repos : HasDebRelease(q)}}

\* C10 (amended): the timestamp handed to the Release summarizer is the maximum,
\* over the projects, of the published_at of the newest release that has a .deb
\* asset, whether that release is cached or not, and at least zero_time
\* (2020-01-01); it does not depend on the time of the run, so a run repeated over
\* the same upstream state hands over the same timestamp.
C10_MaxOverExaminedReleases ==
    /\ (pc = "done" /\ IS_CI) => hist.handed = << MaxOf(ExaminedTimes \cup {zero_time}) >>
    /\ (pc = "done" /\ ~IS_CI) => hist.handed = << >>
    /\ (pc = "done" /\ RepeatedRun) => hist.handed = hist.prev.handed

C10_Witness ==
    /\ pc = "done" /\ IS_CI
    /\ published = [a |-> 3, b |-> 1]
    /\ FullyCached(Catalog("a")[2], hist.loaded["a"])
    /\ hist.downloads # << >>
    /\ hist.handed = << 2 >>

\* --------------------------------------------------------------------- C11
\* the list is ordered by published_at descending, then filename descending
InSaveOrder(es) ==
    \A i \in 1..(Len(es) - 1) :
        \/ es[i].published_at > es[i + 1].published_at
        \/ /\ es[i].published_at = es[i + 1].published_at
           /\ StrRank(es[i].filename) >= StrRank(es[i + 1].filename)

SavesOf(r) == SelectSeq(hist.saves, LAMBDA s : s.repo = r)

\* C11: every cache file handle_repo writes, with or without an error in flight,
\* replaces the file by the complete list (the entries loaded plus the entries
\* ingested), ordered by published_at descending and then filename descending;
\* handle_repo never ends for a project without having written it.
C11_FullSortedOverwrite ==
    /\ \A i \in 1..Len(hist.saves) :
          LET s == hist.saves[i]
          IN  /\ InSaveOrder(s.entries)
              /\ Range(s.entries) = Range(hist.loaded[s.repo]) \cup IngestedEntries(s.repo)
              /\ Len(s.entries) = Len(hist.loaded[s.repo]) + Cardinality(IngestedEntries(s.repo))
              /\ cache_file[s.repo].state = "valid"
              /\ Stored(s.repo) = s.entries
    /\ \A r \in hist.entered :
          Len(SavesOf(r)) = IF InHandleRepo(r) THEN 0 ELSE 1

\* a failed download after an ingestion: the saved list had to be reordered
C11_Witness ==
    /\ pc = "failed" /\ error = "download"
    /\ Len(hist.loaded["a"]) = 2
    /\ Len(cache_file["a"].entries) = 3
    /\ cache_file["a"].entries[1].tag = "v2"
    /\ cache_file["a"].entries[2].filename = "y.deb"
    /\ cache_file["a"].entries[3].filename = "x.deb"

\* --------------------------------------------------------------------- C12
\* C12: in a run that finds a project's cache file loadable, every entry the file
\* held before the run is in the file at every later moment of the run and after
\* it, unchanged (tag, filename, arch, block, timestamp) and as many times, also
\* when upstream no longer lists the release and when the run fails.
C12_NeverPruned ==
    \A r \in Repos :
        hist.cache_before[r].state = "valid" =>
            /\ cache_file[r].state = "valid"
            /\ \A e \in Range(hist.cache_before[r].entries) :
                  Count(cache_file[r].entries, e) = Count(hist.cache_before[r].entries, e)

\* the cache holds v2, upstream has deleted v2, the run fails while ingesting v1
C12_Witness ==
    /\ pc = "failed" /\ repo = "a"
    /\ published["a"] = 1
    /\ HasEntry(hist.cache_before["a"].entries, "v2", "x.deb")
    /\ ~HasEntry(hist.cache_before["a"].entries, "v1", "y.deb")
    /\ HasEntry(cache_file["a"].entries, "v1", "y.deb")
    /\ HasEntry(cache_file["a"].entries, "v2", "x.deb")

\* --------------------------------------------------------------------- C13
\* the assets of project r that a list of entries is about
NamesOf(r, es) == {[repo |-> r, tag |-> e.tag, name |-> e.filename] : e \in Range(es)}

\* the assets of project r downloaded and extracted, with an Architecture match,
\* in this run or an earlier one
EverOf(r) == {f \in hist.prev.ever : f.repo = r}

\* an extractor run that did not yield an entry: the process failed or its output
\* had no Architecture line
ExtractionFailed(x) == ExtractorFails(x.tree) \/ ArchsIn(Scanned(x.tree)) = {}

C14_ListingErrorEndsRun ==
    \A i \in 1..Len(hist.requests) :
        hist.requests[i].outcome = "http" =>
            LET r == hist.requests[i].repo
            IN  /\ i = Len(hist.requests)
                /\ \A j \in 1..(i - 1) : hist.requests[j].repo # r
                /\ error = "http"
                /\ pc \in {"save", "failed"}
                /\ repo = r
                /\ hist.entered = {SortedRepos[k] : k \in 1..repo_i}
                /\ hist.indexed = {SortedRepos[k] : k \in 1..(repo_i - 1)}
                /\ \A d \in Range(hist.downloads) : d.repo # r
                /\ hist.release_writes = 0
                /\ release_file = hist.release_before
                /\ \A q \in hist.indexed :
                      /\ Len(SavesOf(q)) = 1
                      /\ cache_file[q] = Valid(DumpCache(SavesOf(q)[1].entries))

\* a was processed and ingested, the listing of b fails
C14_Witness ==
    /\ pc = "failed" /\ error = "http" /\ repo = "b"
    /\ hist.indexed = {"a"}
    /\ \E g \in Range(hist.ingested) : g.file.repo = "a"
    /\ Len(cache_file["a"].entries) >= 2
    /\ cache_file["b"].state = "valid"

\* --------------------------------------------------------------------- C15
\* C15: the entries handle_repo loads from a cache file that an earlier run wrote
\* are the entries that run's save was given: the same records {tag, filename,
\* arch, block, timestamp}, the timestamps being the same instants, each as many
\* times.
C15_CacheRoundTrip ==
    \A r \in hist.entered :
        hist.cache_before[r].state = "valid" =>
            /\ Range(hist.loaded[r]) = Range(hist.saved_before[r])
            /\ SameBag(hist.loaded[r], hist.saved_before[r])

\* the second run loads what the first saved: two entries of a, and the entry of
\* b whose release was published before 2020
C15_Witness ==
    /\ pc = "done"
    /\ Len(hist.loaded["a"]) = 2
    /\ Len(hist.loaded["b"]) = 1
    /\ hist.loaded["b"][1].published_at = -1
    /\ hist.cache_before["b"].entries[1].published_at = "2019-12-31T00:00:00+00:00"
    /\ hist.saved_before["a"] = hist.loaded["a"]

\* --------------------------------------------------------------------- C16
\* C16: whenever the extractor is invoked for an asset, the tree it scans holds
\* exactly one package file, the asset just downloaded; also in a run that starts
\* from a pool tree left by a run without CI or by a run that aborted.
C16_ExtractorSeesOneFile ==
    \A i \in 1..Len(hist.extractions) :
        hist.extractions[i].tree = {hist.extractions[i].file}

\* --------------------------------------------------------------------- C17
\* the assets whose blocks were appended for project r, in the order of appending
AppendedOf(r) == SelectSeq(hist.appended, LAMBDA f : f.repo = r)

\* the position of the entry of asset f in the list es
PosIn(es, f) == CHOOSE i \in 1..Len(es) : es[i].tag = f.tag /\ es[i].filename = f.name

\* C17 (as stated): within a project the blocks are appended in the order in which
\* the entries are saved in the cache file (published_at descending, then filename
\* descending), whatever the order in which upstream lists the assets.  Stated on
\* pairs of different assets, so that a listing that repeats a filename is not
\* what decides it.
C17_IndexInSaveOrder ==
    pc = "done" =>
        \A r \in Repos : \A i, j \in 1..Len(AppendedOf(r)) :
            (i < j /\ AppendedOf(r)[i] # AppendedOf(r)[j]) =>
                PosIn(cache_file[r].entries, AppendedOf(r)[i])
                    < PosIn(cache_file[r].entries, AppendedOf(r)[j])

\* the .deb assets of the release examined for r that have an entry in es, in the
\* order in which upstream lists them
ListedWithEntry(r, es) ==
    IF ~HasDebRelease(r) THEN << >>
    ELSE LET rel == NewestDebRelease(r)
             has == SelectSeq(DebAssets(rel), LAMBDA a : HasEntry(es, rel.tag_name, a.name))
         IN  [i \in 1..Len(has) |-> FileOf(r, rel, has[i])]

\* C17 (amended): within a project the blocks are appended in the order in which
\* upstream lists the .deb assets of the release examined; the order of the cache
\* sort is given to the cache file only.
C17_IndexInListingOrder ==
    /\ \A r \in hist.indexed : AppendedOf(r) = ListedWithEntry(r, cache_file[r].entries)
    /\ \A r \in Repos \ hist.indexed : AppendedOf(r) = << >>

\* upstream lists x.deb before y.deb, the cache file has y.deb before x.deb
C17_Witness ==
    /\ pc = "done" /\ IS_CI
    /\ AppendedOf("a") = << [repo |-> "a", tag |-> "v2", name |-> "x.deb"],
                            [repo |-> "a", tag |-> "v2", name |-> "y.deb"] >>
    /\ cache_file["a"].entries[1].filename = "y.deb"
    /\ cache_file["a"].entries[2].filename = "x.deb"

\* --------------------------------------------------------------------- C18
\* the binaries this run downloaded that are in the pool tree
StagedByRun == Range(hist.downloads) \cap pool

\* C18: in CI every downloaded binary is deleted right after its extraction: when
\* the next asset is downloaded no binary downloaded earlier in the run is in the
\* tree, at most one binary of the run is staged at any moment, and at the end of
\* the run, also of a run whose extraction failed, none is left.
C18_BinaryDeletedAfterExtraction ==
    (InRun /\ IS_CI) =>
        /\ Cardinality(StagedByRun) <= 1
        /\ \A i \in 1..Len(hist.extractions) : \A j \in 1..(i - 1) :
              hist.extractions[j].file # hist.extractions[i].file
                 => hist.extractions[j].file \notin hist.extractions[i].tree
        /\ pc \in {"done", "failed"} => StagedByRun = {}

\* --------------------------------------------------------------------- C19
\* no two entries of the list have the same (tag, filename)
NoDuplicates(es) ==
    \A i, j \in 1..Len(es) :
        (es[i].tag = es[j].tag /\ es[i].filename = es[j].filename) => i = j

\* C19: starting from caches without duplicates, no project's cache, in the file
\* or in memory, ever holds two entries with the same (tag, filename): not when a
\* release lists a filename twice, not when a failed run is retried.
C19_NoDuplicateEntries ==
    /\ \A r \in Repos : NoDuplicates(cache_file[r].entries)
    /\ NoDuplicates(package_cache)

\* the retry of a failed run: a is loaded and completed, and w1 of b, which lists
\* z.deb twice, is appended twice from one entry
C19_Witness ==
    /\ pc = "done" /\ IS_CI
    /\ hist.prev.ran /\ ~hist.prev.ok
    /\ hist.loaded["a"] # << >>
    /\ \E g \in Range(hist.ingested) : g.file.repo = "a"
    /\ published["b"] = 1
    /\ Len(AppendedOf("b")) = 2
    /\ Len(cache_file["b"].entries) = 1

\* --------------------------------------------------------------------- C20
\* the releases of project r whose assets this run examined
ExaminedOf(r) == SelectSeq(hist.examined, LAMBDA x : x.repo = r)

\* C20: a call of handle_repo examines the assets of at most one release, the
\* newest (by published_at) that has a .deb asset; releases without a .deb asset
\* are passed over without ending the scan and without raising the returned
\* timestamp; nothing is downloaded or appended for any other release, cached or
\* not.
C20_OnlyNewestDebReleaseExamined ==
    /\ \A r \in Repos :
          /\ Len(ExaminedOf(r)) <= 1
          /\ \A i \in 1..Len(ExaminedOf(r)) :
                /\ HasDebRelease(r)
                /\ ExaminedOf(r)[i].tag = NewestDebRelease(r).tag_name
          /\ r \in hist.indexed =>
                Len(ExaminedOf(r)) = IF HasDebRelease(r) THEN 1 ELSE 0
    /\ \A f \in Range(hist.downloads) \cup Range(hist.appended) :
          [repo |-> f.repo, tag |-> f.tag] \in Range(hist.examined)
    /\ pc = "index" =>
          latest_update = IF HasDebRelease(repo)
                          THEN MaxOf({NewestDebRelease(repo).published_at, zero_time})
                          ELSE zero_time

\* v3, the newest, has no .deb asset and is passed over; v2 is examined; v1, older
\* and not cached, is left alone
C20_Witness ==
    /\ pc = "index" /\ repo = "a" /\ IS_CI
    /\ published["a"] = 3
    /\ ExaminedOf("a") = << [repo |-> "a", tag |-> "v2"] >>
    /\ latest_update = 2
    /\ ~HasEntry(cache_file["a"].entries, "v1", "x.deb")
    /\ HasEntry(cache_file["a"].entries, "v2", "x.deb")

====
